---- MODULE Spec2Model ----
(***************************************************************************)
(* A model of fadtk's fad.py: the embedding cache                          *)
(* (cache_embedding_file, read_embedding_file, _load_embeddings), the      *)
(* statistics cache (load_stats), the Frechet distance                     *)
(* (calc_frechet_distance) and the per-file ranking (score_individual).    *)
(*                                                                         *)
(* One directory and one model (self.ml) are modelled, so a path is named  *)
(* by the file stem alone.  Numbers are exact rationals; a float NaN is    *)
(* the rational 0/0.                                                       *)
(***************************************************************************)
EXTENDS Integers, Sequences, FiniteSets, TLC

VARIABLES
    wav,        \* convert/<sr>/<stem>.wav : the converted audio files (load_audio)
    emb,        \* embeddings/<model>/<stem>.npy : the embedding cache
    pc,         \* per worker: the place in the running call
    cur,        \* per worker: the argument (audio file) of the running call
    wavData,    \* per worker: wav_data of cache_embedding_file
    embd,       \* per worker: embd of cache_embedding_file
    ret,        \* per worker: how the last call ended and what it returned
    loads,      \* per file: invocations of load_audio
    embeds,     \* per file: invocations of ml.get_embedding
    failed,     \* per cache path: calls of cache_embedding_file that raised
    ensured,    \* per file: calls of cache_embedding_file that returned
    faults,     \* failures of a collaborator (SoX, the model) still to happen
    calls,      \* calls started so far
    lmFiles,    \* _load_embeddings: files
    lmMax,      \* _load_embeddings: max_count
    lmConcat,   \* _load_embeddings: concat
    dS1,        \* calc_frechet_distance: mu1, cov1
    dS2,        \* calc_frechet_distance: mu2, cov2
    dO1,        \* what the first linalg.sqrtm gives
    dO2,        \* what the second linalg.sqrtm gives
    dR1,        \* the call with the arguments swapped: what the first sqrtm gives
    dR2,        \* the call with the arguments swapped: what the second gives
    dSwap,      \* how the call with the arguments swapped ended
    bgEmb,      \* <dir>/embeddings/<model>/*.npy of the directory of load_stats
    statsDir,   \* <dir>/stats/<model> exists
    muFile,     \* <dir>/stats/<model>/mu.npy
    covFile,    \* <dir>/stats/<model>/cov.npy
    stats,      \* per worker: mu, cov of load_stats
    computes,   \* invocations of calculate_embd_statistics_online
    csv,        \* data/fad-individual/<model>/<csv_name>
    evalDir,    \* the audio files directly under eval_dir
    siFiles,    \* score_individual: _files
    scores,     \* score_individual: scores, as far as the pool has come
    siRaised,   \* score_individual: the places in _files whose step raised
    numpy,      \* the numpy the program runs on: "1.x" or "2.x"
    bsArray,    \* calc_embd_statistics: embd_lst
    bsStats,    \* calc_embd_statistics: what it returned
    rng,        \* the state of the global generator behind np.random
    others,     \* draws from np.random made by the rest of the process
    infSeed,    \* the seed np.random was given before fadinf was called
    infFiles,   \* fadinf: eval_files
    infNpy,     \* fadinf: eval_files are the .npy files themselves
    infSteps,   \* fadinf: steps
    infMinN,    \* fadinf: min_n
    infO1,      \* what the first linalg.sqrtm gives during the run
    infO2,      \* what the second linalg.sqrtm gives during the run
    infEmbeds,  \* fadinf: embeds
    infNs,      \* fadinf: ns
    infResults, \* fadinf: results
    infSamples  \* fadinf: the indices drawn for each entry of results

cacheVars == <<wav, emb, pc, cur, wavData, embd, ret, loads, embeds, failed,
               ensured, faults, calls>>

loadVars == <<lmFiles, lmMax, lmConcat>>

distVars == <<dS1, dS2, dO1, dO2, dR1, dR2, dSwap>>

statsVars == <<bgEmb, statsDir, muFile, covFile, stats, computes>>

scoreVars == <<csv, evalDir, siFiles, scores, siRaised>>

envVars == <<numpy>>

batchVars == <<bsArray, bsStats>>

\* What only the specifications of the pure functions change.
infVars == <<rng, others, infSeed, infFiles, infNpy, infSteps, infMinN, infO1, infO2,
             infEmbeds, infNs, infResults, infSamples>>

otherVars == <<envVars, batchVars, infVars>>

vars == <<cacheVars, loadVars, distVars, statsVars, scoreVars, otherVars>>

\* What the steps of the embedding cache leave alone.
notCache == <<loadVars, distVars, statsVars, scoreVars, otherVars>>

(***************************************************************************)
(* Bounds.                                                                 *)
(***************************************************************************)
\* calls started in one run of the cache specifications
MaxCalls == 3
\* failures of a collaborator in one run of the sequential cache specification
MaxFaults == 1
\* the largest max_count tried
MaxCount == 8
\* the longest list of files tried
MaxFiles == 3
\* the most embedding files in the directory of load_stats
MaxBg == 2
\* Square roots that are not rational are kept to 1/SqrtScale, as floats keep
\* them to their precision.  A scale of 2s and 5s keeps the sums with eps and
\* with the halves and quarters of the covariances within 32 bits.
SqrtScale == 1000

(***************************************************************************)
(* Files and paths.                                                        *)
(***************************************************************************)
\* An audio file of the directory: <<stem, extension>>.
Files == {<<"a", "wav">>, <<"a", "mp3">>, <<"b", "wav">>}

Stem(f) == f[1]
Suffix(f) == f[2]

\* find_sox_formats(sox_path): the formats SoX reads itself.
SoxFormats == {"wav"}

Workers == {1, 2}

Absent == [kind |-> "absent"]
\* A file that was opened for writing and is not written yet.
Partial == [kind |-> "partial"]

\* (cache_dir / f.name).with_suffix(".wav"): the converted file of f.
WavPath(f) == Stem(f)

\* get_cache_embedding_path: parent / "embeddings" / ml.name / <stem>.npy.
get_cache_embedding_path(f) == Stem(f)

WavPaths == {WavPath(f) : f \in Files}
CachePaths == {get_cache_embedding_path(f) : f \in Files}

(***************************************************************************)
(* The collaborators: the audio of a file and the model's embedding of it. *)
(***************************************************************************)
\* Frames of the whole audio of a file.
FullLen(f) == IF Stem(f) = "a" THEN 2 ELSE 3

\* The embedding row the model gives for frame i of the audio of f.
FrameRow(f, i) ==
    IF f = <<"a", "wav">> THEN <<0, 0>>
    ELSE IF f = <<"a", "mp3">> THEN <<i, 2 * i>>
    ELSE <<10, 10>>

\* A waveform: the audio of src, len frames of it.
Waveform(f, n) == [src |-> f, len |-> n]

\* ml.get_embedding(wav_data): one row per frame.
get_embedding(w) == [kind |-> "array", rows |-> [i \in 1..w.len |-> FrameRow(w.src, i)]]

\* The embedding of the whole audio of f, as a saved array.
EmbeddingOf(f) == get_embedding(Waveform(f, FullLen(f)))

(***************************************************************************)
(* The embedding cache: load_audio, cache_embedding_file,                  *)
(* read_embedding_file.  Each is a sequence of steps of one worker; the    *)
(* files wav and emb are shared by the workers.                            *)
(***************************************************************************)
None == [kind |-> "none"]

\* max_count = -1: no bound on the frames.
Unbounded == -1
NoFile == <<"", "">>

\* How a call ended: op(file) returned value, or raised err.
Returned(o, f, v) == [op |-> o, file |-> f, kind |-> "return", value |-> v, err |-> ""]
Raised(o, f, e) == [op |-> o, file |-> f, kind |-> "raise", value |-> None, err |-> e]
Running(o, f) == [op |-> o, file |-> f, kind |-> "running", value |-> None, err |-> ""]

\* A converted file: the audio of src, whole or still being written.
WavFile(f, c) == [kind |-> "wav", src |-> f, complete |-> c]

\* Path.exists(): any file at the path counts, written to the end or not.
Exists(file) == file # Absent

IsArray(file) == file.kind = "array"

\* What a collaborator may do now: fail only while failures are left.
Outcomes == IF faults > 0 THEN {"ok", "fail"} ELSE {"ok"}

Inc(fn, k) == [fn EXCEPT ![k] = @ + 1]

\* No call is running and none was made.
CacheIdle ==
    /\ pc = [w \in Workers |-> "idle"]
    /\ cur = [w \in Workers |-> NoFile]
    /\ wavData = [w \in Workers |-> None]
    /\ embd = [w \in Workers |-> None]
    /\ ret = [w \in Workers |-> None]
    /\ loads = [f \in Files |-> 0]
    /\ embeds = [f \in Files |-> 0]
    /\ failed = [p \in CachePaths |-> 0]
    /\ ensured = [f \in Files |-> 0]
    /\ calls = 0

\* No _load_embeddings is asked for.
LoadIdle ==
    /\ lmFiles = <<>>
    /\ lmMax = Unbounded
    /\ lmConcat = TRUE

\* No calc_frechet_distance is asked for.
DistIdle ==
    /\ dS1 = None
    /\ dS2 = None
    /\ dO1 = "real"
    /\ dO2 = "real"
    /\ dR1 = "real"
    /\ dR2 = "real"
    /\ dSwap = None

\* No statistics are cached and none are being loaded.
StatsIdle ==
    /\ statsDir = FALSE
    /\ muFile = Absent
    /\ covFile = Absent
    /\ stats = [w \in Workers |-> None]
    /\ computes = 0

\* There is no report and no score_individual is running.
ScoreIdle ==
    /\ csv = Absent
    /\ evalDir = {}
    /\ siFiles = <<>>
    /\ scores = <<>>
    /\ siRaised = {}

\* The numpy releases: np.cov of a single row differs between them.
NumpyVersions == {"1.x", "2.x"}

\* No covariance is taken: which numpy it is does not matter.
EnvIdle == numpy = "1.x"

\* No calc_embd_statistics is asked for.
BatchIdle ==
    /\ bsArray = None
    /\ bsStats = None

\* No fadinf is asked for.
InfIdle ==
    /\ rng = 0
    /\ others = 0
    /\ infSeed = 0
    /\ infFiles = <<>>
    /\ infNpy = FALSE
    /\ infSteps = 0
    /\ infMinN = 0
    /\ infO1 = "real"
    /\ infO2 = "real"
    /\ infEmbeds = None
    /\ infNs = <<>>
    /\ infResults = <<>>
    /\ infSamples = <<>>

\* Nothing is converted and nothing is cached yet.
CacheInit ==
    /\ wav = [p \in WavPaths |-> Absent]
    /\ emb = [p \in CachePaths |-> Absent]
    /\ CacheIdle
    /\ LoadIdle
    /\ DistIdle
    /\ bgEmb = <<>>
    /\ StatsIdle
    /\ ScoreIdle
    /\ EnvIdle
    /\ BatchIdle
    /\ InfIdle

\* The call raises: the worker is idle again and holds nothing.
Raise(w, e) ==
    /\ pc' = [pc EXCEPT ![w] = "idle"]
    /\ ret' = [ret EXCEPT ![w] = Raised(ret[w].op, cur[w], e)]
    /\ wavData' = [wavData EXCEPT ![w] = None]
    /\ embd' = [embd EXCEPT ![w] = None]
    /\ failed' = Inc(failed, get_cache_embedding_path(cur[w]))

\* cache_embedding_file(audio_dir) is called.
CallCache(w, f) ==
    /\ pc[w] = "idle"
    /\ calls < MaxCalls
    /\ calls' = calls + 1
    /\ pc' = [pc EXCEPT ![w] = "ce_exists"]
    /\ cur' = [cur EXCEPT ![w] = f]
    /\ ret' = [ret EXCEPT ![w] = Running("cache", f)]
    /\ UNCHANGED <<wav, emb, wavData, embd, loads, embeds, failed, ensured, faults>>
    /\ UNCHANGED notCache

\* cache = get_cache_embedding_path(audio_dir); cache.exists()
MutIsCachedNever(f) == FALSE
IsCached(f) == Exists(emb[get_cache_embedding_path(f)])

\* if cache.exists(): return; otherwise load_audio is entered.
CeExists(w) ==
    /\ pc[w] = "ce_exists"
    /\ IF IsCached(cur[w])
       THEN /\ pc' = [pc EXCEPT ![w] = "idle"]
            /\ ret' = [ret EXCEPT ![w] = Returned("cache", cur[w], None)]
            /\ ensured' = Inc(ensured, cur[w])
            /\ UNCHANGED loads
       ELSE /\ pc' = [pc EXCEPT ![w] = "la_exists"]
            /\ loads' = Inc(loads, cur[w])
            /\ UNCHANGED <<ret, ensured>>
    /\ UNCHANGED <<wav, emb, cur, wavData, embd, embeds, failed, faults, calls>>
    /\ UNCHANGED notCache

\* load_audio: if not new.exists(): convert, by ffmpeg first when SoX does not
\* read the format.
LaExists(w) ==
    /\ pc[w] = "la_exists"
    /\ pc' = [pc EXCEPT ![w] =
                IF Exists(wav[WavPath(cur[w])]) THEN "la_load"
                ELSE IF Suffix(cur[w]) \notin SoxFormats THEN "la_ffmpeg"
                ELSE "la_sox"]
    /\ UNCHANGED <<wav, emb, cur, wavData, embd, ret, loads, embeds, failed,
                   ensured, faults, calls>>
    /\ UNCHANGED notCache

\* ffmpeg converts the file into a temporary directory of this call.
LaFfmpeg(w) ==
    /\ pc[w] = "la_ffmpeg"
    /\ pc' = [pc EXCEPT ![w] = "la_sox"]
    /\ UNCHANGED <<wav, emb, cur, wavData, embd, ret, loads, embeds, failed,
                   ensured, faults, calls>>
    /\ UNCHANGED notCache

\* subprocess.run([sox, ..., new]) starts: SoX opens new for writing.
LaSoxStart(w) ==
    /\ pc[w] = "la_sox"
    /\ wav' = [wav EXCEPT ![WavPath(cur[w])] = WavFile(cur[w], FALSE)]
    /\ pc' = [pc EXCEPT ![w] = "la_sox_run"]
    /\ UNCHANGED <<emb, cur, wavData, embd, ret, loads, embeds, failed,
                   ensured, faults, calls>>
    /\ UNCHANGED notCache

\* SoX ends.  It wrote the whole file, or it failed (its exit status is not
\* looked at) and left no file or the unfinished one.
LaSoxEnd(w) ==
    /\ pc[w] = "la_sox_run"
    /\ \E o \in Outcomes, left \in BOOLEAN :
          /\ o = "ok" => left
          /\ wav' = [wav EXCEPT ![WavPath(cur[w])] =
                        IF o = "ok" THEN WavFile(cur[w], TRUE)
                        ELSE IF left THEN @ ELSE Absent]
          /\ faults' = IF o = "ok" THEN faults ELSE faults - 1
    /\ pc' = [pc EXCEPT ![w] = "la_load"]
    /\ UNCHANGED <<emb, cur, wavData, embd, ret, loads, embeds, failed,
                   ensured, calls>>
    /\ UNCHANGED notCache

\* The waveforms ml.load_wav(new) can give: none of a missing file (it raises),
\* the whole audio of a complete file, and of a file still being written either
\* none (it raises) or the audio written so far.
LoadWav(file) ==
    IF ~Exists(file) THEN {}
    ELSE IF file.complete THEN {Waveform(file.src, FullLen(file.src))}
    ELSE {Waveform(file.src, n) : n \in 1..(FullLen(file.src) - 1)}

\* ml.load_wav(new) can raise: on a missing file and on an unfinished one.
LoadWavRaises(file) == IF Exists(file) THEN ~file.complete ELSE TRUE

\* return self.ml.load_wav(new)
LaLoadWav(w) ==
    /\ pc[w] = "la_load"
    /\ LET file == wav[WavPath(cur[w])]
       IN \/ /\ \E d \in LoadWav(file) : wavData' = [wavData EXCEPT ![w] = d]
             /\ pc' = [pc EXCEPT ![w] = "ce_embed"]
             /\ UNCHANGED <<ret, embd, failed>>
          \/ /\ LoadWavRaises(file)
             /\ Raise(w, "LoadError")
    /\ UNCHANGED <<wav, emb, cur, loads, embeds, ensured, faults, calls>>
    /\ UNCHANGED notCache

\* embd = self.ml.get_embedding(wav_data)
CeEmbed(w) ==
    /\ pc[w] = "ce_embed"
    /\ embeds' = Inc(embeds, cur[w])
    /\ \E o \in Outcomes :
          IF o = "ok"
          THEN /\ embd' = [embd EXCEPT ![w] = get_embedding(wavData[w])]
               /\ pc' = [pc EXCEPT ![w] = "ce_save"]
               /\ UNCHANGED <<ret, wavData, failed, faults>>
          ELSE /\ Raise(w, "ModelError")
               /\ faults' = faults - 1
    /\ UNCHANGED <<wav, emb, cur, loads, ensured, calls>>
    /\ UNCHANGED notCache

\* np.save(cache, embd) opens the file: it is there and empty.
CeSaveOpen(w) ==
    /\ pc[w] = "ce_save"
    /\ emb' = [emb EXCEPT ![get_cache_embedding_path(cur[w])] = Partial]
    /\ pc' = [pc EXCEPT ![w] = "ce_write"]
    /\ UNCHANGED <<wav, cur, wavData, embd, ret, loads, embeds, failed,
                   ensured, faults, calls>>
    /\ UNCHANGED notCache

\* np.save writes the array and closes the file; the call returns.
CeSaveWrite(w) ==
    /\ pc[w] = "ce_write"
    /\ emb' = [emb EXCEPT ![get_cache_embedding_path(cur[w])] = embd[w]]
    /\ pc' = [pc EXCEPT ![w] = "idle"]
    /\ ret' = [ret EXCEPT ![w] = Returned("cache", cur[w], None)]
    /\ ensured' = Inc(ensured, cur[w])
    /\ wavData' = [wavData EXCEPT ![w] = None]
    /\ embd' = [embd EXCEPT ![w] = None]
    /\ UNCHANGED <<wav, cur, loads, embeds, failed, faults, calls>>
    /\ UNCHANGED notCache

\* read_embedding_file(audio_dir) on the cache as it is: the assertion, then
\* np.load, which raises on a file that is not a whole array.
MutReadNoCheck(f, cache) == Returned("read", f, cache[get_cache_embedding_path(f)])
read_embedding_file(f, cache) ==
    LET file == cache[get_cache_embedding_path(f)]
    IN IF ~Exists(file) THEN Raised("read", f, "AssertionError")
       ELSE IF ~IsArray(file) THEN Raised("read", f, "EOFError")
       ELSE Returned("read", f, file)

\* A worker calls read_embedding_file.
ReadEmbedding(w, f) ==
    /\ pc[w] = "idle"
    /\ calls < MaxCalls
    /\ calls' = calls + 1
    /\ cur' = [cur EXCEPT ![w] = f]
    /\ ret' = [ret EXCEPT ![w] = read_embedding_file(f, emb)]
    /\ UNCHANGED <<wav, emb, pc, wavData, embd, loads, embeds, failed,
                   ensured, faults>>
    /\ UNCHANGED notCache

\* The steps of worker w.
CacheStep(w) ==
    \/ \E f \in Files : CallCache(w, f)
    \/ \E f \in Files : ReadEmbedding(w, f)
    \/ CeExists(w)
    \/ LaExists(w)
    \/ LaFfmpeg(w)
    \/ LaSoxStart(w)
    \/ LaSoxEnd(w)
    \/ LaLoadWav(w)
    \/ CeEmbed(w)
    \/ CeSaveOpen(w)
    \/ CeSaveWrite(w)

\* One worker: calls follow one another, and a collaborator may fail.
InitCache == CacheInit /\ faults = MaxFaults
NextCache == CacheStep(1)
SpecCache == InitCache /\ [][NextCache]_vars

\* Two workers of the pool (tmap), and no collaborator fails.
InitRace == CacheInit /\ faults = 0
NextRace == \E w \in Workers : CacheStep(w)
SpecRace == InitRace /\ [][NextRace]_vars

(***************************************************************************)
(* The embedding cache: what is claimed of it.                             *)
(***************************************************************************)
RECURSIVE SumOver(_, _)
SumOver(fn, S) ==
    IF S = {} THEN 0
    ELSE LET x == CHOOSE y \in S : TRUE IN fn[x] + SumOver(fn, S \ {x})

\* The files of one cache key.
FilesAt(p) == {f \in Files : get_cache_embedding_path(f) = p}

C1_AtMostOnce ==
    \A p \in CachePaths :
        /\ failed[p] = 0 =>
              /\ SumOver(loads, FilesAt(p)) <= 1
              /\ SumOver(embeds, FilesAt(p)) <= 1
        /\ (faults = MaxFaults /\ IsArray(emb[p])) =>
              \E f \in FilesAt(p) : loads[f] = 1 /\ emb[p] = EmbeddingOf(f)
        /\ \A f \in FilesAt(p) :
              (pc[1] = "idle" /\ ret[1] = Returned("cache", f, None)) => IsArray(emb[p])

C1_LaterCallIsNoOp ==
    \A f \in Files :
        LET p == get_cache_embedding_path(f)
        IN IsArray(emb[p]) =>
              /\ emb'[p] = emb[p]
              /\ loads'[f] = loads[f]
              /\ embeds'[f] = embeds[f]

\* C1: with one worker, the loader and the model are invoked at most once for a
\* cache key none of whose calls raised; the first call on an absent entry
\* persists the embedding of its file; and once the array is there no call
\* invokes the loader or the model or changes the array.
C1_Idempotent == [](C1_AtMostOnce) /\ [][C1_LaterCallIsNoOp]_vars

\* A second call for a file returned, and its audio was loaded and embedded once.
C1_Witness ==
    \E f \in Files :
        /\ ensured[f] = 2
        /\ loads[f] = 1
        /\ embeds[f] = 1
        /\ emb[get_cache_embedding_path(f)] = EmbeddingOf(f)

C8_ReadResult ==
    \A w \in Workers :
        (ret[w] # None /\ ret[w].op = "read") =>
            LET f == ret[w].file
                file == emb[get_cache_embedding_path(f)]
            IN /\ ~IsArray(file) => ret[w].kind = "raise"
               /\ ~Exists(file) => ret[w].err = "AssertionError"
               /\ ensured[f] > 0 =>
                     /\ IsArray(file)
                     /\ ret[w] = Returned("read", f, file)

C8_ReadChangesNothing ==
    (ret'[1] # None /\ ret'[1].op = "read" /\ calls' # calls) =>
        /\ emb' = emb
        /\ wav' = wav

\* C8: with one worker, read_embedding_file raises (the assertion) when nothing
\* is at the cache path, a read changes no cache file, and a read after a call
\* of cache_embedding_file that returned for the file returns the array at its
\* cache path.
C8_Read == [](C8_ReadResult) /\ [][C8_ReadChangesNothing]_vars

\* A read
\* of a file returned the array a call of cache_embedding_file had persisted.
C8_Witness ==
    \E f \in Files :
        /\ ensured[f] = 1
        /\ loads[f] = 1
        /\ ret[1] = Returned("read", f, EmbeddingOf(f))

\* C9: when two workers have called cache_embedding_file for the same file and
\* both found the entry missing, both calls return and the entry is the
\* embedding of the file.
C9_RaceOnlyDuplicatesWork ==
    \A f \in Files :
        ( /\ \A w \in Workers : pc[w] = "idle" /\ ret[w] # None
          /\ \A w \in Workers : ret[w].op = "cache" /\ ret[w].file = f
          /\ calls = 2
          /\ loads[f] = 2 )
        => /\ \A w \in Workers : ret[w].kind = "return"
           /\ emb[get_cache_embedding_path(f)] = EmbeddingOf(f)

\* The same with both calls returning: the entry is still not the embedding.
C9_RaceNoRaiseStillClean ==
    \A f \in Files :
        ( /\ \A w \in Workers : pc[w] = "idle" /\ ret[w] = Returned("cache", f, None)
          /\ calls = 2
          /\ loads[f] = 2 )
        => emb[get_cache_embedding_path(f)] = EmbeddingOf(f)

(***************************************************************************)
(* _load_embeddings(files, max_count, concat), on the cache as it is.      *)
(***************************************************************************)
\* The arrays that can be at a cache path: the embedding of a file of that
\* path, of its whole audio or of a part of it.
ArraysAt(p) ==
    UNION {{get_embedding(Waveform(f, n)) : n \in 1..FullLen(f)} : f \in FilesAt(p)}

\* The caches _load_embeddings is tried on.
Caches == {c \in [CachePaths -> UNION {ArraysAt(p) \cup {Absent} : p \in CachePaths}] :
              \A p \in CachePaths : c[p] \in ArraysAt(p) \cup {Absent}}

\* Lists of distinct files, of up to MaxFiles files, in any order.
FileLists ==
    UNION {{l \in [1..n -> Files] : \A i, j \in 1..n : l[i] = l[j] => i = j} :
              n \in 0..MaxFiles}

\* embd.shape[0]
Rows(array) == Len(array.rows)

\* if total_len > max_count: break
MutCrossesOnEqual(total_len, max_count) == total_len >= max_count
Crosses(total_len, max_count) == total_len > max_count

\* The loop of lines 190-196, from files[i] on: the list of arrays read, or the
\* exception of the read that raised.
RECURSIVE LoadLoop(_, _, _, _, _, _)
LoadLoop(files, cache, max_count, i, total_len, embd_lst) ==
    IF i > Len(files) THEN Returned("load", NoFile, embd_lst)
    ELSE LET r == read_embedding_file(files[i], cache)
         IN IF r.kind = "raise" THEN Raised("load", files[i], r.err)
            ELSE LET lst == Append(embd_lst, r.value)
                     total == total_len + Rows(r.value)
                 IN IF Crosses(total, max_count)
                    THEN Returned("load", NoFile, lst)
                    ELSE LoadLoop(files, cache, max_count, i + 1, total, lst)

\* tmap(self.read_embedding_file, files): every file is read; the results keep
\* the order of the files, and the first exception, in that order, is raised.
LoadAll(files, cache) ==
    LET reads == [i \in 1..Len(files) |-> read_embedding_file(files[i], cache)]
        bad == {i \in 1..Len(files) : reads[i].kind = "raise"}
    IN IF bad # {}
       THEN LET i == CHOOSE k \in bad : \A j \in bad : k <= j
            IN Raised("load", files[i], reads[i].err)
       ELSE Returned("load", NoFile, [i \in 1..Len(files) |-> reads[i].value])

\* np.concatenate(embd_lst, axis=0): the rows of the arrays, one after another.
RECURSIVE ConcatRows(_)
ConcatRows(lst) ==
    IF lst = <<>> THEN <<>> ELSE lst[1].rows \o ConcatRows(Tail(lst))

np_concatenate(lst) == [kind |-> "array", rows |-> ConcatRows(lst)]

\* return embd_lst, files
ListAndFiles(embd_lst, files) == <<embd_lst, files>>

_load_embeddings(files, max_count, concat, cache) ==
    LET r == IF max_count = Unbounded THEN LoadAll(files, cache)
             ELSE LoadLoop(files, cache, max_count, 1, 0, <<>>)
    IN IF r.kind = "raise" THEN r
       ELSE IF concat
            THEN IF r.value = <<>> THEN Raised("load", NoFile, "ValueError")
                 ELSE Returned("load", NoFile, np_concatenate(r.value))
            ELSE Returned("load", NoFile, ListAndFiles(r.value, files))

\* _load_embeddings is called with the arguments drawn.
LoadEmbeddings ==
    /\ pc[1] = "idle"
    /\ calls = 0
    /\ calls' = 1
    /\ ret' = [ret EXCEPT ![1] = _load_embeddings(lmFiles, lmMax, lmConcat, emb)]
    /\ UNCHANGED <<wav, emb, pc, cur, wavData, embd, loads, embeds, failed,
                   ensured, faults>>
    /\ UNCHANGED notCache

\* Any list of files, any max_count and any cache.
InitLoad ==
    /\ wav = [p \in WavPaths |-> Absent]
    /\ emb \in Caches
    /\ CacheIdle
    /\ faults = 0
    /\ lmFiles \in FileLists
    /\ lmMax \in Unbounded..MaxCount
    /\ lmConcat \in BOOLEAN
    /\ DistIdle
    /\ bgEmb = <<>>
    /\ StatsIdle
    /\ ScoreIdle
    /\ EnvIdle
    /\ BatchIdle
    /\ InfIdle
NextLoad == LoadEmbeddings
SpecLoad == InitLoad /\ [][NextLoad]_vars

(***************************************************************************)
(* _load_embeddings: what is claimed of it.                                *)
(***************************************************************************)
\* The array cached for the i-th file.
CachedOf(i) == emb[get_cache_embedding_path(lmFiles[i])]

\* The frames of the first k files.
RECURSIVE Cum(_)
Cum(k) == IF k = 0 THEN 0 ELSE Cum(k - 1) + Rows(CachedOf(k))

\* The call returned the arrays of the first k files, whole.
IsPrefix(k) ==
    LET lst == [i \in 1..k |-> CachedOf(i)]
    IN IF lmConcat THEN ret[1].value = np_concatenate(lst)
       ELSE ret[1].value[1] = lst

LoadReturned == calls = 1 /\ ret[1].op = "load" /\ ret[1].kind = "return"

\* C3: a call of _load_embeddings with a bound returns the whole arrays of the
\* first k files, where no file before the k-th made the frame count exceed
\* max_count, the k-th did unless it is the last, and the frames returned are at
\* least max_count unless all files together have fewer (and then k is all).
C3_NoTruncation ==
    (LoadReturned /\ lmMax # Unbounded) =>
        \E k \in 0..Len(lmFiles) :
            /\ IsPrefix(k)
            /\ \A j \in 1..(k - 1) : Cum(j) <= lmMax
            /\ k < Len(lmFiles) => Cum(k) > lmMax
            /\ \/ Cum(k) >= lmMax
               \/ Cum(Len(lmFiles)) < lmMax /\ k = Len(lmFiles)

\* A bounded call stopped before the last file, on a file that crossed the bound.
C3_Witness ==
    /\ LoadReturned
    /\ lmMax = 3
    /\ ~lmConcat
    /\ Len(lmFiles) = 3
    /\ Len(ret[1].value[1]) = 2
    /\ Cum(1) = 2
    /\ Cum(2) = 4

\* C4: a call with concat = False on a list of cached files returns as many
\* arrays as files, and the i-th array is the one cached for the i-th file
\* returned.
C4_ArraysPairedWithFiles ==
    (LoadReturned /\ ~lmConcat /\ \A i \in 1..Len(lmFiles) : IsArray(CachedOf(i))) =>
        LET arrays == ret[1].value[1]
            files == ret[1].value[2]
        IN /\ Len(arrays) = Len(files)
           /\ \A i \in 1..Len(arrays) :
                 arrays[i] = emb[get_cache_embedding_path(files[i])]

(***************************************************************************)
(* Numbers.  A float is modelled by an exact rational n/d in lowest terms, *)
(* d > 0; a float that is not finite (NaN, inf) by d = 0.                  *)
(***************************************************************************)
RECURSIVE GCD(_, _)
GCD(a, b) == IF b = 0 THEN a ELSE GCD(b, a % b)

IAbs(i) == IF i < 0 THEN 0 - i ELSE i

NaN == [n |-> 0, d |-> 0]

\* n/d in lowest terms; x/0 is not finite.
Rat(n, d) ==
    IF d = 0 THEN NaN
    ELSE LET g == GCD(IAbs(n), IAbs(d))
             sg == IF d < 0 THEN 0 - 1 ELSE 1
         IN [n |-> sg * (n \div g), d |-> (sg * d) \div g]

FromInt(i) == [n |-> i, d |-> 1]
Zero == FromInt(0)

\* np.isfinite
IsFinite(x) == x.d # 0

RAdd(x, y) == IF IsFinite(x) /\ IsFinite(y) THEN Rat(x.n * y.d + y.n * x.d, x.d * y.d) ELSE NaN
RSub(x, y) == IF IsFinite(x) /\ IsFinite(y) THEN Rat(x.n * y.d - y.n * x.d, x.d * y.d) ELSE NaN
RMul(x, y) == IF IsFinite(x) /\ IsFinite(y) THEN Rat(x.n * y.n, x.d * y.d) ELSE NaN
RDiv(x, y) == IF IsFinite(x) /\ IsFinite(y) THEN Rat(x.n * y.d, x.d * y.n) ELSE NaN

\* x < y as floats compare: false when one of them is NaN.
RLt(x, y) == IsFinite(x) /\ IsFinite(y) /\ x.n * y.d < y.n * x.d
RLe(x, y) == IsFinite(x) /\ IsFinite(y) /\ x.n * y.d <= y.n * x.d

\* np.abs
RAbs(x) == IF IsFinite(x) THEN [n |-> IAbs(x.n), d |-> x.d] ELSE NaN

\* The largest k with k * k <= n, for lo * lo <= n < hi * hi.
RECURSIVE ISqrtIn(_, _, _)
ISqrtIn(n, lo, hi) ==
    IF hi - lo <= 1 THEN lo
    ELSE LET mid == (lo + hi) \div 2
         IN IF mid * mid <= n THEN ISqrtIn(n, mid, hi) ELSE ISqrtIn(n, lo, mid)

\* No root of a 32-bit number reaches 46341.
ISqrt(n) == ISqrtIn(n, 0, IF n < 46341 THEN n + 1 ELSE 46341)

\* The square root of x >= 0: exact when x is the square of a rational, and
\* rounded down to a multiple of 1/SqrtScale otherwise.
RSqrt(x) ==
    IF ~IsFinite(x) \/ x.n < 0 THEN NaN
    ELSE LET rn == ISqrt(x.n)
             rd == ISqrt(x.d)
         IN IF rn * rn = x.n /\ rd * rd = x.d THEN Rat(rn, rd)
            ELSE Rat(ISqrt((x.n * SqrtScale * SqrtScale) \div x.d), SqrtScale)

(***************************************************************************)
(* Vectors (sequences of numbers) and matrices (sequences of rows).        *)
(***************************************************************************)
RECURSIVE RSum(_)
RSum(v) == IF v = <<>> THEN Zero ELSE RAdd(v[1], RSum(Tail(v)))

\* shape of a matrix
Shape(a) == <<Len(a), IF Len(a) = 0 THEN 0 ELSE Len(a[1])>>

VSub(u, v) == [j \in 1..Len(u) |-> RSub(u[j], v[j])]

\* u.dot(v) of two vectors
MutVDotSum(u, v) == RSum(u)
VDot(u, v) == RSum([j \in 1..Len(u) |-> RMul(u[j], v[j])])

\* a.dot(b) of two square matrices of one shape
MDot(a, b) ==
    [i \in 1..Len(a) |-> [j \in 1..Len(a) |->
        RSum([k \in 1..Len(a) |-> RMul(a[i][k], b[k][j])])]]

\* np.trace
Trace(a) == RSum([i \in 1..Len(a) |-> a[i][i]])

\* np.isfinite(a).all()
AllFinite(a) == \A i \in 1..Len(a) : \A j \in 1..Len(a[i]) : IsFinite(a[i][j])

\* The determinant of a matrix of 1 or 2 rows.
Det(a) ==
    IF Len(a) = 1 THEN a[1][1]
    ELSE RSub(RMul(a[1][1], a[2][2]), RMul(a[1][2], a[2][1]))

\* The trace of the principal square root of a matrix of 1 or 2 rows whose
\* eigenvalues are not negative: sqrt(l1) + sqrt(l2) = sqrt(tr + 2 sqrt(det)).
MutTraceSqrtByElement(a) == RSum([i \in 1..Len(a) |-> RSqrt(a[i][i])])
TraceSqrt(a) ==
    IF Len(a) = 1 THEN RSqrt(a[1][1])
    ELSE RSqrt(RAdd(Trace(a), RMul(FromInt(2), RSqrt(Det(a)))))

(***************************************************************************)
(* calc_embd_statistics                                                    *)
(***************************************************************************)
\* The rows of an array, as numbers.
RowsOf(array) ==
    [i \in 1..Len(array.rows) |->
        [j \in 1..Len(array.rows[i]) |-> FromInt(array.rows[i][j])]]

Column(x, j) == [i \in 1..Len(x) |-> x[i][j]]

\* np.mean of a vector
Mean(v) == RDiv(RSum(v), FromInt(Len(v)))

\* np.mean(embd_lst, axis=0)
np_mean(x) == [j \in 1..Len(x[1]) |-> Mean(Column(x, j))]

\* The sample covariance of two series of observations (ddof = 1).
Cov(u, v) ==
    LET mu == Mean(u)
        mv == Mean(v)
    IN RDiv(RSum([i \in 1..Len(u) |-> RMul(RSub(u[i], mu), RSub(v[i], mv))]),
            FromInt(Len(u) - 1))

\* A matrix of NaN
NaNs(rows, cols) == [j \in 1..rows |-> [k \in 1..cols |-> NaN]]

\* np.cov(embd_lst, rowvar=False), then np.atleast_2d (line 52).  The columns
\* are the variables and the rows the observations, but for an array of a
\* single row:
\*   numpy 1.x ("if not rowvar and X.shape[0] != 1: X = X.T") takes the row for
\*     one variable and its entries for the observations: the result is the
\*     variance of the entries, a scalar;
\*   numpy 2.x ("if not rowvar and m.ndim != 1: X = X.T") has one observation of
\*     each variable and divides 0 by n - 1 = 0: a matrix of NaN.
np_cov(version, x) ==
    IF Len(x) = 1
    THEN IF version = "1.x" THEN <<<<Cov(x[1], x[1])>>>>
         ELSE NaNs(Len(x[1]), Len(x[1]))
    ELSE [j \in 1..Len(x[1]) |-> [k \in 1..Len(x[1]) |-> Cov(Column(x, j), Column(x, k))]]

\* A mean vector and a covariance matrix.
Stats(mu, cov) == [mu |-> mu, cov |-> cov]

\* calc_embd_statistics(embd_lst) on the numpy of that version.
calc_embd_statistics(version, array) ==
    Stats(np_mean(RowsOf(array)), np_cov(version, RowsOf(array)))

(***************************************************************************)
(* calc_frechet_distance                                                   *)
(***************************************************************************)
\* What linalg.sqrtm gives on a finite matrix is the library's affair, and in
\* floating point it depends on the conditioning of the product: a real and
\* finite root, a matrix of NaN (no root found), or a complex root whose
\* diagonal has a small, or a large, imaginary part.
SqrtmOutcomes == {"real", "nan", "complex_small", "complex_large"}

\* covmean as the code looks at it: np.iscomplexobj, np.isfinite(..).all(),
\* np.allclose(np.diagonal(covmean).imag, 0, atol=1e-3), np.trace(covmean.real).
Covmean(o, a) ==
    [complex |-> o \in {"complex_small", "complex_large"},
     finite |-> o # "nan",
     small |-> o # "complex_large",
     trace |-> IF o = "nan" THEN NaN ELSE TraceSqrt(a)]

\* eps.  The default, 1e-6, cannot be squared in the model's numbers; the
\* model's eps is small against the entries of the covariances it is added to.
Eps == Rat(1, 16)

\* cov + offset, where offset = np.eye(cov.shape[0]) * eps
AddOffset(cov) ==
    [i \in 1..Len(cov) |-> [j \in 1..Len(cov) |->
        IF i = j THEN RAdd(cov[i][j], Eps) ELSE cov[i][j]]]

\* if not np.isfinite(covmean).all(): the root of the offset product is taken.
NeedsRetry(covmean) == ~covmean.finite

\* The second linalg.sqrtm is called only when the first root is not finite.
SecondOutcomes(o1) == IF o1 = "nan" THEN SqrtmOutcomes ELSE {"real"}

\* assert mu1.shape == mu2.shape; assert cov1.shape == cov2.shape
SameShapes(s1, s2) == Len(s1.mu) = Len(s2.mu) /\ Shape(s1.cov) = Shape(s2.cov)

\* What a failed assertion ends the call with.
MutDimensionMismatchScalar == Returned("distance", NoFile, NaN)
DimensionMismatch == Raised("distance", NoFile, "AssertionError")

\* calc_frechet_distance(mu1, cov1, mu2, cov2) where sqrtm gives an outcome of
\* kind o1 and, when the root is taken again, of kind o2.
calc_frechet_distance(s1, s2, o1, o2) ==
    IF ~SameShapes(s1, s2)
    THEN DimensionMismatch
    ELSE LET diff == VSub(s1.mu, s2.mu)
             prod == MDot(s1.cov, s2.cov)
         IN IF ~AllFinite(prod)
            \* sqrtm validates its argument (check_finite)
            THEN Raised("distance", NoFile, "ValueError")
            ELSE LET first == Covmean(o1, prod)
                     again == MDot(AddOffset(s1.cov), AddOffset(s2.cov))
                     covmean == IF NeedsRetry(first) THEN Covmean(o2, again) ELSE first
                 \* whether the second root is finite is not looked at
                 IN IF covmean.complex /\ ~covmean.small
                    THEN Raised("distance", NoFile, "ValueError")
                    ELSE Returned("distance", NoFile,
                            RSub(RAdd(RAdd(VDot(diff, diff), Trace(s1.cov)), Trace(s2.cov)),
                                 RMul(FromInt(2), covmean.trace)))

\* The statistics calc_frechet_distance is tried on: those of the arrays that
\* can be cached, on either numpy, and those of an array of one column.
AllArrays == UNION {ArraysAt(p) : p \in CachePaths}
\* An array of one column: its statistics have d = 1.
OneColumn == [kind |-> "array", rows |-> <<<<1>>, <<3>>>>]
DistInputs ==
    {calc_embd_statistics(v, a) : v \in NumpyVersions, a \in AllArrays \cup {OneColumn}}

\* calc_frechet_distance is called with the arguments drawn.
CalcFrechetDistance ==
    /\ pc[1] = "idle"
    /\ calls = 0
    /\ calls' = 1
    /\ ret' = [ret EXCEPT ![1] = calc_frechet_distance(dS1, dS2, dO1, dO2)]
    /\ UNCHANGED <<wav, emb, pc, cur, wavData, embd, loads, embeds, failed,
                   ensured, faults>>
    /\ UNCHANGED notCache

\* calc_frechet_distance is called with the two statistics swapped.
CalcSwapped ==
    /\ dSwap = None
    /\ dSwap' = calc_frechet_distance(dS2, dS1, dR1, dR2)
    /\ UNCHANGED <<dS1, dS2, dO1, dO2, dR1, dR2>>
    /\ UNCHANGED <<cacheVars, loadVars, statsVars, scoreVars, otherVars>>

\* Any two statistics, and any outcome of the square roots of either call.
InitDist ==
    /\ wav = [p \in WavPaths |-> Absent]
    /\ emb = [p \in CachePaths |-> Absent]
    /\ CacheIdle
    /\ faults = 0
    /\ LoadIdle
    /\ dS1 \in DistInputs
    /\ dS2 \in DistInputs
    /\ dO1 \in SqrtmOutcomes
    /\ dO2 \in SecondOutcomes(dO1)
    /\ dR1 \in SqrtmOutcomes
    /\ dR2 \in SecondOutcomes(dR1)
    /\ dSwap = None
    /\ bgEmb = <<>>
    /\ StatsIdle
    /\ ScoreIdle
    /\ EnvIdle
    /\ BatchIdle
    /\ InfIdle
NextDist == CalcFrechetDistance \/ CalcSwapped
SpecDist == InitDist /\ [][NextDist]_vars

(***************************************************************************)
(* calc_frechet_distance: what is claimed of it.                           *)
(***************************************************************************)
DistDone == calls = 1 /\ ret[1].op = "distance"

\* The statistics agree in shape and the product of the covariances is finite:
\* the square root is taken.
RootTaken ==
    /\ dS1 # None
    /\ Len(dS1.mu) = Len(dS2.mu)
    /\ Shape(dS1.cov) = Shape(dS2.cov)
    /\ AllFinite(MDot(dS1.cov, dS2.cov))

\* The two statistics differ in the length of mu or in the shape of cov.
Mismatch == dS1 # None /\ ~SameShapes(dS1, dS2)

\* C12: whenever mu1 and mu2 differ in length or cov1 and cov2 in shape,
\* calc_frechet_distance raises the assertion error, whatever the covariances
\* hold and whatever a square root of their product would have given, and
\* returns no number.
C12_DimensionsFirst ==
    (DistDone /\ Mismatch) => ret[1] = Raised("distance", NoFile, "AssertionError")

\* A call raised on two means of different lengths, one of the covariances
\* not being finite.
C12_Witness ==
    /\ DistDone
    /\ Len(dS1.mu) # Len(dS2.mu)
    /\ ~AllFinite(dS1.cov)
    /\ ret[1].kind = "raise"

\* Valid statistics: mu of d finite numbers, cov a finite symmetric d x d matrix
\* that is positive semi-definite (d is 1 or 2 here).
Valid(s) ==
    /\ s # None
    /\ Shape(s.cov) = <<Len(s.mu), Len(s.mu)>>
    /\ \A j \in 1..Len(s.mu) : IsFinite(s.mu[j])
    /\ AllFinite(s.cov)
    /\ \A i, j \in 1..Len(s.cov) : s.cov[i][j] = s.cov[j][i]
    /\ \A i \in 1..Len(s.cov) : RLe(Zero, s.cov[i][i])
    /\ RLe(Zero, Det(s.cov))

\* The first square root came out finite, with no imaginary part to speak of:
\* no root is taken again and nothing is raised.
FirstRootGood(o) == o \in {"real", "complex_small"}

\* The distance of valid statistics to themselves was asked for.
ReflexiveDone == DistDone /\ dS1 = dS2 /\ Valid(dS1)

\* C14 as stated: the distance of any valid statistics to themselves is 0.
C14_Reflexive ==
    ReflexiveDone => ret[1] = Returned("distance", NoFile, Zero)

\* C14, amended: the distance of valid statistics to themselves is 0 when the
\* first square root is finite and has no imaginary part to speak of.
C14_ReflexiveOnGoodRoot ==
    (ReflexiveDone /\ FirstRootGood(dO1)) => ret[1] = Returned("distance", NoFile, Zero)

\* The distance of statistics with a covariance other than zero to themselves
\* was returned, the first root being good.
C14_Witness ==
    /\ ReflexiveDone
    /\ FirstRootGood(dO1)
    /\ \E i \in 1..Len(dS1.cov) : dS1.cov[i][i] # Zero
    /\ ret[1].kind = "return"

\* After the retry the distance of valid statistics to themselves is
\* -2 * d * eps: the root of the offset product is cov + eps * I.
C14_AfterRetry ==
    (ReflexiveDone /\ dO1 = "nan" /\ FirstRootGood(dO2)) =>
        ret[1] = Returned("distance", NoFile,
                          RSub(Zero, RMul(FromInt(2 * Len(dS1.mu)), Eps)))

\* Both distances of two valid statistics of one dimension were asked for.
BothDone ==
    /\ DistDone
    /\ dSwap # None
    /\ Valid(dS1)
    /\ Valid(dS2)
    /\ SameShapes(dS1, dS2)

\* The tolerance within which two distances count as equal: as much as eps.
Tolerance == Eps

\* Two numbers within the tolerance of one another.
Close(x, y) == RLe(RAbs(RSub(x, y)), Tolerance)

\* Both calls took the retry, and the second root of each came out good.
BothRetried ==
    /\ dO1 = "nan" /\ FirstRootGood(dO2)
    /\ dR1 = "nan" /\ FirstRootGood(dR2)

\* C15 as stated: the two distances are equal within the tolerance, also when
\* one of the two calls takes the retry.
C15_Symmetric ==
    BothDone =>
        /\ ret[1].kind = "return"
        /\ dSwap.kind = "return"
        /\ Close(ret[1].value, dSwap.value)

\* C15, amended: the two distances are equal when the roots of both calls come
\* out alike: both first roots good, or both calls retried and both second
\* roots good.
C15_SymmetricOnLikeRoots ==
    (BothDone /\ ((FirstRootGood(dO1) /\ FirstRootGood(dR1)) \/ BothRetried)) =>
        /\ ret[1].kind = "return"
        /\ IsFinite(ret[1].value)
        /\ dSwap = ret[1]

\* Both calls took the retry on two different statistics, and returned.
C15_Witness ==
    /\ BothDone
    /\ BothRetried
    /\ dS1.mu # dS2.mu
    /\ dS1.cov # dS2.cov
    /\ ret[1].kind = "return"

\* When one call alone takes the retry, the two distances of statistics with
\* a covariance of zeros on one side are further apart than the tolerance.
C15_OneRetryApart ==
    (BothDone /\ FirstRootGood(dO1) /\ dR1 = "nan" /\ FirstRootGood(dR2)
       /\ Trace(dS1.cov) = Zero) => ~Close(ret[1].value, dSwap.value)

\* C10: when the square root is not finite and the square root taken again with
\* the offset is not finite either, calc_frechet_distance raises.
C10_RaisesWhenStillNotFinite ==
    (DistDone /\ RootTaken /\ dO1 = "nan" /\ dO2 = "nan") => ret[1].kind = "raise"

(***************************************************************************)
(* load_stats(dir), step by step.  bgEmb holds the arrays under            *)
(* <dir>/embeddings/<model>; the directory does not change.                *)
(***************************************************************************)
\* Every row of every array, in the order of the files.
AllRows(arrays) == RowsOf(np_concatenate(arrays))

\* calculate_embd_statistics_online(files): the frame count N, the sum of the
\* rows and the sum of their outer products; mu = sum / N and
\* cov = (sumOuter - N mu (x) mu) / (N - 1).
calculate_embd_statistics_online(arrays) ==
    LET x == AllRows(arrays)
        N == FromInt(Len(x))
        d == Len(x[1])
        sum == [j \in 1..d |-> RSum(Column(x, j))]
        sumOuter == [j \in 1..d |-> [k \in 1..d |->
                        RSum([i \in 1..Len(x) |-> RMul(x[i][j], x[i][k])])]]
        mu == [j \in 1..d |-> RDiv(sum[j], N)]
    IN Stats(mu, [j \in 1..d |-> [k \in 1..d |->
                    RDiv(RSub(sumOuter[j][k], RMul(N, RMul(mu[j], mu[k]))),
                         RSub(N, FromInt(1)))]])

\* np.save(path, value): the file written to the end.
Saved(value) == [kind |-> "array", value |-> value]

\* The directories load_stats is tried on: one to MaxBg embedding files.
BgDirs == UNION {[1..n -> AllArrays] : n \in 1..MaxBg}

\* load_stats(dir) is called.
CallLoadStats(w) ==
    /\ pc[w] = "idle"
    /\ calls < MaxCalls
    /\ calls' = calls + 1
    /\ pc' = [pc EXCEPT ![w] = "ls_exists"]
    /\ cur' = [cur EXCEPT ![w] = NoFile]
    /\ ret' = [ret EXCEPT ![w] = Running("stats", NoFile)]
    /\ UNCHANGED <<wav, emb, wavData, embd, loads, embeds, failed, ensured, faults>>
    /\ UNCHANGED <<otherVars, loadVars, distVars, statsVars, scoreVars>>

\* cache_dir.exists()
MutStatsCachedNever == FALSE
StatsCached == statsDir

\* if cache_dir.exists(): load; else compute.
LsExists(w) ==
    /\ pc[w] = "ls_exists"
    /\ pc' = [pc EXCEPT ![w] = IF StatsCached THEN "ls_load_mu" ELSE "ls_compute"]
    /\ UNCHANGED <<wav, emb, cur, wavData, embd, ret, loads, embeds, failed,
                   ensured, faults, calls>>
    /\ UNCHANGED <<otherVars, loadVars, distVars, statsVars, scoreVars>>

\* load_stats raises: the exception leaves the running call.
StatsRaise(w, e) ==
    /\ pc' = [pc EXCEPT ![w] = "idle"]
    /\ ret' = [ret EXCEPT ![w] = Raised(ret[w].op, NoFile, e)]
    /\ stats' = [stats EXCEPT ![w] = None]

\* np.load(file): the error it raises, or "" when the file is a whole array.
LoadError(file) ==
    IF ~Exists(file) THEN "FileNotFoundError"
    ELSE IF ~IsArray(file) THEN "EOFError"
    ELSE ""

\* mu = np.load(cache_dir / "mu.npy")
LsLoadMu(w) ==
    /\ pc[w] = "ls_load_mu"
    /\ IF LoadError(muFile) # ""
       THEN StatsRaise(w, LoadError(muFile))
       ELSE /\ stats' = [stats EXCEPT ![w] = Stats(muFile.value, None)]
            /\ pc' = [pc EXCEPT ![w] = "ls_load_cov"]
            /\ UNCHANGED ret
    /\ UNCHANGED <<wav, emb, cur, wavData, embd, loads, embeds, failed,
                   ensured, faults, calls>>
    /\ UNCHANGED <<bgEmb, statsDir, muFile, covFile, computes>>
    /\ UNCHANGED <<otherVars, loadVars, distVars, scoreVars>>

\* return mu, cov: to the caller, or into score_individual (line 295) or
\* fadinf (line 249).
StatsReturn(w, st) ==
    IF ret[w].op \in {"score", "fadinf"}
    THEN /\ pc' = [pc EXCEPT ![w] = IF ret[w].op = "score" THEN "si_glob" ELSE "fi_load"]
         /\ stats' = [stats EXCEPT ![w] = st]
         /\ UNCHANGED ret
    ELSE /\ pc' = [pc EXCEPT ![w] = "idle"]
         /\ stats' = [stats EXCEPT ![w] = None]
         /\ ret' = [ret EXCEPT ![w] = Returned("stats", NoFile, st)]

\* cov = np.load(cache_dir / "cov.npy"); return mu, cov
LsLoadCov(w) ==
    /\ pc[w] = "ls_load_cov"
    /\ IF LoadError(covFile) # ""
       THEN StatsRaise(w, LoadError(covFile))
       ELSE StatsReturn(w, Stats(stats[w].mu, covFile.value))
    /\ UNCHANGED <<wav, emb, cur, wavData, embd, loads, embeds, failed,
                   ensured, faults, calls>>
    /\ UNCHANGED <<bgEmb, statsDir, muFile, covFile, computes>>
    /\ UNCHANGED <<otherVars, loadVars, distVars, scoreVars>>

\* mu, cov = calculate_embd_statistics_online(list(emb_dir.glob("*.npy")))
LsCompute(w) ==
    /\ pc[w] = "ls_compute"
    /\ computes' = computes + 1
    /\ stats' = [stats EXCEPT ![w] = calculate_embd_statistics_online(bgEmb)]
    /\ pc' = [pc EXCEPT ![w] = "ls_mkdir"]
    /\ UNCHANGED <<wav, emb, cur, wavData, embd, ret, loads, embeds, failed,
                   ensured, faults, calls>>
    /\ UNCHANGED <<bgEmb, statsDir, muFile, covFile>>
    /\ UNCHANGED <<otherVars, loadVars, distVars, scoreVars>>

\* cache_dir.mkdir(parents=True, exist_ok=True)
LsMkdir(w) ==
    /\ pc[w] = "ls_mkdir"
    /\ statsDir' = TRUE
    /\ pc' = [pc EXCEPT ![w] = "ls_save_mu"]
    /\ UNCHANGED <<wav, emb, cur, wavData, embd, ret, loads, embeds, failed,
                   ensured, faults, calls>>
    /\ UNCHANGED <<bgEmb, muFile, covFile, stats, computes>>
    /\ UNCHANGED <<otherVars, loadVars, distVars, scoreVars>>

\* np.save(cache_dir / "mu.npy", mu) opens the file.
LsSaveMuOpen(w) ==
    /\ pc[w] = "ls_save_mu"
    /\ muFile' = Partial
    /\ pc' = [pc EXCEPT ![w] = "ls_write_mu"]
    /\ UNCHANGED <<wav, emb, cur, wavData, embd, ret, loads, embeds, failed,
                   ensured, faults, calls>>
    /\ UNCHANGED <<bgEmb, statsDir, covFile, stats, computes>>
    /\ UNCHANGED <<otherVars, loadVars, distVars, scoreVars>>

\* What np.save(cache_dir / "mu.npy", mu) writes.
SavedMu(st) == Saved(st.mu)

\* np.save(cache_dir / "mu.npy", mu) writes mu and closes the file.
LsSaveMuWrite(w) ==
    /\ pc[w] = "ls_write_mu"
    /\ muFile' = SavedMu(stats[w])
    /\ pc' = [pc EXCEPT ![w] = "ls_save_cov"]
    /\ UNCHANGED <<wav, emb, cur, wavData, embd, ret, loads, embeds, failed,
                   ensured, faults, calls>>
    /\ UNCHANGED <<bgEmb, statsDir, covFile, stats, computes>>
    /\ UNCHANGED <<otherVars, loadVars, distVars, scoreVars>>

\* np.save(cache_dir / "cov.npy", cov) opens the file.
LsSaveCovOpen(w) ==
    /\ pc[w] = "ls_save_cov"
    /\ covFile' = Partial
    /\ pc' = [pc EXCEPT ![w] = "ls_write_cov"]
    /\ UNCHANGED <<wav, emb, cur, wavData, embd, ret, loads, embeds, failed,
                   ensured, faults, calls>>
    /\ UNCHANGED <<bgEmb, statsDir, muFile, stats, computes>>
    /\ UNCHANGED <<otherVars, loadVars, distVars, scoreVars>>

\* np.save(cache_dir / "cov.npy", cov) writes cov; return mu, cov
LsSaveCovWrite(w) ==
    /\ pc[w] = "ls_write_cov"
    /\ covFile' = Saved(stats[w].cov)
    /\ StatsReturn(w, stats[w])
    /\ UNCHANGED <<wav, emb, cur, wavData, embd, loads, embeds, failed,
                   ensured, faults, calls>>
    /\ UNCHANGED <<bgEmb, statsDir, muFile, computes>>
    /\ UNCHANGED <<otherVars, loadVars, distVars, scoreVars>>

\* The steps of load_stats of worker w.
StatsStep(w) ==
    \/ LsExists(w)
    \/ LsLoadMu(w)
    \/ LsLoadCov(w)
    \/ LsCompute(w)
    \/ LsMkdir(w)
    \/ LsSaveMuOpen(w)
    \/ LsSaveMuWrite(w)
    \/ LsSaveCovOpen(w)
    \/ LsSaveCovWrite(w)

\* One caller calls load_stats again and again on a directory with embeddings
\* and no statistics yet.
InitStats ==
    /\ wav = [p \in WavPaths |-> Absent]
    /\ emb = [p \in CachePaths |-> Absent]
    /\ CacheIdle
    /\ faults = 0
    /\ LoadIdle
    /\ DistIdle
    /\ bgEmb \in BgDirs
    /\ StatsIdle
    /\ ScoreIdle
    /\ EnvIdle
    /\ BatchIdle
    /\ InfIdle
NextStats == CallLoadStats(1) \/ StatsStep(1)
SpecStats == InitStats /\ [][NextStats]_vars

(***************************************************************************)
(* load_stats: what is claimed of it.                                      *)
(***************************************************************************)
StatsReturned(w) == pc[w] = "idle" /\ ret[w] # None /\ ret[w].op = "stats"

\* C2: with one caller and an unchanged directory, however often load_stats is
\* called the statistics are computed once; every call returns, and returns the
\* statistics of the directory, which after the first call are the pair saved.
C2_ComputedOnce ==
    /\ computes <= 1
    /\ StatsReturned(1) =>
          /\ ret[1].kind = "return"
          /\ computes = 1
          /\ ret[1].value = calculate_embd_statistics_online(bgEmb)
          /\ IsArray(muFile) /\ IsArray(covFile)
          /\ ret[1].value = Stats(muFile.value, covFile.value)

\* A second call returned and the statistics were computed once.
C2_Witness ==
    /\ calls = 2
    /\ StatsReturned(1)
    /\ ret[1].kind = "return"
    /\ computes = 1

(***************************************************************************)
(* score_individual(background_dir, eval_dir, csv_name), step by step.     *)
(* bgEmb and the statistics cache are those of background_dir; emb is the  *)
(* embedding cache of eval_dir.                                            *)
(***************************************************************************)
\* A slot of scores the pool has not filled yet.
Pending == [kind |-> "pending"]

\* The value score_individual returns after writing: the path of the report.
CsvPath == [kind |-> "path"]

\* The report file: one record (file, score) per line.
Report(rows) == [kind |-> "report", rows |-> rows]

\* write(csv, text): the file holds the text.
write(rows) == Report(rows)

\* csv.exists()
MutReportExistsNever == FALSE
ReportExists == Exists(csv)

\* score_individual(background_dir, eval_dir, csv_name) is called.
CallScore(w) ==
    /\ pc[w] = "idle"
    /\ calls < MaxCalls
    /\ calls' = calls + 1
    /\ pc' = [pc EXCEPT ![w] = "si_exists"]
    /\ ret' = [ret EXCEPT ![w] = Running("score", NoFile)]
    /\ UNCHANGED <<wav, emb, cur, wavData, embd, loads, embeds, failed, ensured, faults>>
    /\ UNCHANGED <<otherVars, loadVars, distVars, statsVars, scoreVars>>

\* if csv.exists(): return.  Otherwise mu, cov = self.load_stats(background_dir).
SiExists(w) ==
    /\ pc[w] = "si_exists"
    /\ IF ReportExists
       THEN /\ pc' = [pc EXCEPT ![w] = "idle"]
            /\ ret' = [ret EXCEPT ![w] = Returned("score", NoFile, None)]
       ELSE /\ pc' = [pc EXCEPT ![w] = "ls_exists"]
            /\ UNCHANGED ret
    /\ UNCHANGED <<wav, emb, cur, wavData, embd, loads, embeds, failed, ensured,
                   faults, calls>>
    /\ UNCHANGED <<otherVars, loadVars, distVars, statsVars, scoreVars>>

\* Every order of the files of a set: the orders glob may list them in.
Orders(S) == {s \in [1..Cardinality(S) -> S] : \A f \in S : \E i \in DOMAIN s : s[i] = f}

\* Path(eval_dir).glob("*.*"): every file of Files has a suffix and is matched.
Glob(dir) == Orders(dir)

\* _files = list(Path(eval_dir).glob("*.*")); tmap hands every file to the pool.
SiGlob(w) ==
    /\ pc[w] = "si_glob"
    /\ \E listed \in Glob(evalDir) :
          /\ siFiles' = listed
          /\ scores' = [i \in DOMAIN listed |-> Pending]
    /\ siRaised' = {}
    /\ pc' = [pc EXCEPT ![w] = "si_map"]
    /\ UNCHANGED <<wav, emb, cur, wavData, embd, ret, loads, embeds, failed,
                   ensured, faults, calls>>
    /\ UNCHANGED <<csv, evalDir>>
    /\ UNCHANGED <<otherVars, loadVars, distVars, statsVars>>

\* The body of the try of _find_z_helper(f): read the cached embedding, take
\* its statistics, take the distance to the background's.
FindZ(f, bg, cache, o1, o2) ==
    LET read == read_embedding_file(f, cache)
    IN IF read.kind = "raise" THEN read
       ELSE calc_frechet_distance(bg, calc_embd_statistics(numpy, read.value), o1, o2)

\* except Exception: the error is logged and the helper falls off its end.
MutOnExceptionZero == Zero
OnException == None

\* _find_z_helper(f), z being how the body of its try ended.
Caught(z) == IF z.kind = "raise" THEN OnException ELSE z.value

\* The pool runs _find_z_helper on a file not scored yet; tmap keeps the
\* results in the order of _files.
SiScoreFile(w) ==
    /\ pc[w] = "si_map"
    /\ \E i \in DOMAIN siFiles, o1 \in SqrtmOutcomes :
       \E o2 \in SecondOutcomes(o1) :
          LET z == FindZ(siFiles[i], stats[w], emb, o1, o2)
          IN /\ scores[i] = Pending
             /\ siRaised' = IF z.kind = "raise" THEN siRaised \cup {i} ELSE siRaised
             /\ scores' = [scores EXCEPT ![i] = Caught(z)]
    /\ UNCHANGED cacheVars
    /\ UNCHANGED <<csv, evalDir, siFiles>>
    /\ UNCHANGED <<otherVars, loadVars, distVars, statsVars>>

\* key=lambda x: np.abs(x[1]), and the one comparison list.sort makes: key < key.
Key(p) == RAbs(p[2])
KeyLt(p, q) == RLt(Key(p), Key(q))

\* list.sort on fewer than 64 items: count_run finds the run the list starts
\* with (a strictly descending one is reversed), binarysort inserts the rest.
RECURSIVE RunEnd(_, _, _)
RunEnd(a, desc, i) ==
    IF i < Len(a) /\ (IF desc THEN KeyLt(a[i + 1], a[i]) ELSE ~KeyLt(a[i + 1], a[i]))
    THEN RunEnd(a, desc, i + 1)
    ELSE i

count_run(a) ==
    IF Len(a) <= 1 THEN [n |-> Len(a), desc |-> FALSE]
    ELSE LET desc == KeyLt(a[2], a[1])
         IN [n |-> RunEnd(a, desc, 2), desc |-> desc]

Reverse(a) == [i \in 1..Len(a) |-> a[Len(a) + 1 - i]]

\* The place binarysort finds for pivot among a[l..r-1].
RECURSIVE BinarySearch(_, _, _, _)
BinarySearch(a, pivot, l, r) ==
    IF l < r
    THEN LET p == l + ((r - l) \div 2)
         IN IF KeyLt(pivot, a[p]) THEN BinarySearch(a, pivot, l, p)
            ELSE BinarySearch(a, pivot, p + 1, r)
    ELSE l

\* binarysort: a[1..k-1] is taken as sorted; a[k], a[k+1], ... are inserted.
RECURSIVE binarysort(_, _)
binarysort(a, k) ==
    IF k > Len(a) THEN a
    ELSE LET at == BinarySearch(a, a[k], 1, k)
         IN binarysort(SubSeq(a, 1, at - 1) \o <<a[k]>> \o SubSeq(a, at, k - 1)
                          \o SubSeq(a, k + 1, Len(a)),
                       k + 1)

\* sorted(pairs, key=lambda x: np.abs(x[1]))
sorted(a) ==
    LET run == count_run(a)
        b == IF run.desc
             THEN Reverse(SubSeq(a, 1, run.n)) \o SubSeq(a, run.n + 1, Len(a))
             ELSE a
    IN binarysort(b, run.n + 1)

\* p[1] is not None
KeepPair(p) == p[2] # None

\* pairs = zip(_files, scores), without those of score None, sorted; the report
\* is written and its path returned.
SiWrite(w) ==
    /\ pc[w] = "si_map"
    /\ \A i \in DOMAIN scores : scores[i] # Pending
    /\ LET pairs == [i \in DOMAIN siFiles |-> <<siFiles[i], scores[i]>>]
       IN csv' = write(sorted(SelectSeq(pairs, KeepPair)))
    /\ pc' = [pc EXCEPT ![w] = "idle"]
    /\ ret' = [ret EXCEPT ![w] = Returned("score", NoFile, CsvPath)]
    /\ stats' = [stats EXCEPT ![w] = None]
    /\ UNCHANGED <<wav, emb, cur, wavData, embd, loads, embeds, failed, ensured,
                   faults, calls>>
    /\ UNCHANGED <<evalDir, siFiles, scores, siRaised>>
    /\ UNCHANGED <<bgEmb, statsDir, muFile, covFile, computes>>
    /\ UNCHANGED <<otherVars, loadVars, distVars>>

\* The steps of score_individual of worker w, load_stats included.
ScoreStep(w) ==
    \/ SiExists(w)
    \/ StatsStep(w)
    \/ SiGlob(w)
    \/ SiScoreFile(w)
    \/ SiWrite(w)

\* The background directories score_individual is tried on: frames at the
\* origin, or frames on a line.
ScoreBgDirs == {<<EmbeddingOf(<<"a", "wav">>)>>, <<EmbeddingOf(<<"a", "mp3">>)>>}

\* The reports that may be there already: empty, with a record, cut short.
ExistingReports == {Report(<<>>), Report(<<<<<<"b", "wav">>, FromInt(7)>>>>), Partial}

\* Any eval_dir with any embeddings cached, a report there or not, and the
\* statistics of the background cached or not, on numpy 1.x: there the
\* statistics of a file of one frame make calc_frechet_distance raise.
InitScore ==
    /\ wav = [p \in WavPaths |-> Absent]
    /\ emb \in Caches
    /\ CacheIdle
    /\ faults = 0
    /\ LoadIdle
    /\ DistIdle
    /\ bgEmb \in ScoreBgDirs
    /\ statsDir \in BOOLEAN
    /\ muFile = IF statsDir THEN Saved(calculate_embd_statistics_online(bgEmb).mu)
                ELSE Absent
    /\ covFile = IF statsDir THEN Saved(calculate_embd_statistics_online(bgEmb).cov)
                 ELSE Absent
    /\ stats = [w \in Workers |-> None]
    /\ computes = 0
    /\ csv \in {Absent} \cup ExistingReports
    /\ evalDir \in SUBSET Files
    /\ siFiles = <<>>
    /\ scores = <<>>
    /\ siRaised = {}
    /\ numpy = "1.x"
    /\ BatchIdle
    /\ InfIdle
NextScore == CallScore(1) \/ ScoreStep(1)
SpecScore == InitScore /\ [][NextScore]_vars

(***************************************************************************)
(* score_individual: what is claimed of it.                                *)
(***************************************************************************)
\* A run of score_individual wrote the report and returned its path.
ReportWritten ==
    /\ pc[1] = "idle"
    /\ ret[1] = Returned("score", NoFile, CsvPath)
    /\ csv.kind = "report"

\* The lines of the report that are about the file at place i of _files.
LinesOf(i) == {k \in DOMAIN csv.rows : csv.rows[k][1] = siFiles[i]}

\* The report has one record, with the file's score, for every file under
\* eval_dir whose step did not raise, and none for a file whose step raised.
C5_OneRecordPerScoredFile ==
    ReportWritten =>
        /\ {siFiles[i] : i \in DOMAIN siFiles} = evalDir
        /\ \A i \in DOMAIN siFiles :
              IF i \in siRaised THEN LinesOf(i) = {}
              ELSE /\ Cardinality(LinesOf(i)) = 1
                   /\ \A k \in LinesOf(i) : csv.rows[k][2] = scores[i]
        /\ \A k \in DOMAIN csv.rows : \E i \in DOMAIN siFiles : k \in LinesOf(i)

\* No step taken while the files are scored makes the run raise.
C5_ScoringNeverRaises ==
    pc[1] = "si_map" => /\ pc'[1] \in {"si_map", "idle"}
                        /\ ret'[1].kind # "raise"

SkipStep == pc[1] = "si_exists" /\ Exists(csv)

\* What the whole of the skipped call leaves as it was: the report, the eval
\* directory's cache, the converted files, the statistics cache, the counts of
\* the collaborators' invocations, and the scores.
C6_Frame == <<csv, emb, wav, statsDir, muFile, covFile, stats, computes, loads,
              embeds, evalDir, siFiles, scores, siRaised>>

\* The call that finds a report ends with its next step, returning None and
\* changing nothing.
C6_SkipStepIsAll ==
    SkipStep => /\ pc'[1] = "idle"
                /\ ret'[1] = Returned("score", NoFile, None)
                /\ UNCHANGED C6_Frame

\* C6: when a report exists at the path, whatever it holds, score_individual
\* skips and returns None: no embedding is read, no statistics are computed or
\* saved, no file is scored, and the report and every cache stay as they were.
C6_SkipsWhenReportExists == [][C6_SkipStepIsAll]_vars

\* A call found a report that was there before any run, and returned None.
C6_Witness ==
    /\ calls = 1
    /\ pc[1] = "idle"
    /\ ret[1] = Returned("score", NoFile, None)
    /\ csv \in ExistingReports
    /\ evalDir # {}

\* C7: the records of the report written are in ascending order of |score|: for
\* any two records at lines i < j, |score_i| <= |score_j|.
C7_ReportAscending ==
    ReportWritten =>
        \A i, j \in DOMAIN csv.rows :
            i < j => RLe(RAbs(csv.rows[i][2]), RAbs(csv.rows[j][2]))

\* The records whose score is a number are not in ascending order either, once
\* a score that is NaN stands among them.
C7_NumbersAscending ==
    ReportWritten =>
        \A i, j \in DOMAIN csv.rows :
            (i < j /\ IsFinite(csv.rows[i][2]) /\ IsFinite(csv.rows[j][2]))
                => RLe(RAbs(csv.rows[i][2]), RAbs(csv.rows[j][2]))

\* A report none of whose scores is NaN is in ascending order of |score|.
C7_AscendingWithoutNaN ==
    (ReportWritten /\ \A k \in DOMAIN csv.rows : IsFinite(csv.rows[k][2]))
        => \A i, j \in DOMAIN csv.rows :
              i < j => RLe(RAbs(csv.rows[i][2]), RAbs(csv.rows[j][2]))

(***************************************************************************)
(* get_cache_embedding_path: what is claimed of it.                        *)
(***************************************************************************)
\* The embeddings of the audio of f itself, whole or cut short.
OwnArrays(f) == {get_embedding(Waveform(f, n)) : n \in 1..FullLen(f)}

\* Two distinct files have two distinct cache paths.
C11_DistinctPaths ==
    \A f, g \in Files :
        f # g => get_cache_embedding_path(f) # get_cache_embedding_path(g)

\* C11: a call for one file touches only that file's entry: what
\* read_embedding_file(f) returns, and the entry cache_embedding_file(f) returns
\* on, is an embedding of f and not that of another file, also when the two
\* files differ in their extension only.
C11_OwnEntryOnly ==
    (pc[1] = "idle" /\ ret[1] # None /\ ret[1].kind = "return") =>
        /\ ret[1].op = "read" => ret[1].value \in OwnArrays(ret[1].file)
        /\ ret[1].op = "cache" =>
              emb[get_cache_embedding_path(ret[1].file)] \in OwnArrays(ret[1].file)

(***************************************************************************)
(* calc_embd_statistics on its own.                                        *)
(***************************************************************************)
\* The most rows of an array calc_embd_statistics is tried on.
MaxRows == 3

\* The entries of those arrays.
Entries == {0, 1, 3}

\* The arrays calc_embd_statistics is tried on: one to MaxRows rows of one or
\* two entries.
BatchArrays ==
    UNION {{[kind |-> "array", rows |-> r] : r \in [1..n -> [1..d -> Entries]]} :
              n \in 1..MaxRows, d \in 1..2}

\* calc_embd_statistics is called on the array drawn.
CalcEmbdStatistics ==
    /\ bsStats = None
    /\ bsStats' = calc_embd_statistics(numpy, bsArray)
    /\ UNCHANGED <<numpy, bsArray>>
    /\ UNCHANGED <<cacheVars, loadVars, distVars, statsVars, scoreVars, infVars>>

\* Any array, on either numpy.
InitBatch ==
    /\ wav = [p \in WavPaths |-> Absent]
    /\ emb = [p \in CachePaths |-> Absent]
    /\ CacheIdle
    /\ faults = 0
    /\ LoadIdle
    /\ DistIdle
    /\ bgEmb = <<>>
    /\ StatsIdle
    /\ ScoreIdle
    /\ numpy \in NumpyVersions
    /\ bsArray \in BatchArrays
    /\ bsStats = None
    /\ InfIdle
NextBatch == CalcEmbdStatistics
SpecBatch == InitBatch /\ [][NextBatch]_vars

(***************************************************************************)
(* calc_embd_statistics: what is claimed of it.                            *)
(***************************************************************************)
\* calc_embd_statistics returned the statistics of an array of a single row.
SingleRowDone == bsStats # None /\ Len(bsArray.rows) = 1

\* A matrix of zeros
Zeros(rows, cols) == [j \in 1..rows |-> [k \in 1..cols |-> Zero]]

\* The mean of a single row is the row.
C13_SingleRowMean == SingleRowDone => bsStats.mu = RowsOf(bsArray)[1]

\* C13: the statistics of an array of a single row of d entries are the row
\* for mu and a d x d matrix of zeros for the covariance.
C13_SingleRowZeroCov ==
    SingleRowDone =>
        /\ bsStats.mu = RowsOf(bsArray)[1]
        /\ bsStats.cov = Zeros(Len(bsArray.rows[1]), Len(bsArray.rows[1]))

\* On neither numpy is the covariance of a single row a matrix of zeros.
C13_SingleRowCovNeverZeros ==
    SingleRowDone =>
        bsStats.cov # Zeros(Len(bsArray.rows[1]), Len(bsArray.rows[1]))

(***************************************************************************)
(* fadinf(baseline_dir, eval_files, steps, min_n), step by step.  bgEmb    *)
(* and the statistics cache are those of baseline_dir; emb is the          *)
(* embedding cache of the directory of eval_files.                         *)
(***************************************************************************)
\* The most steps and the largest min_n fadinf is tried on, and the most draws
\* the rest of the process makes meanwhile.
MaxSteps == 3
MaxMinN == 2
MaxOthers == 1

\* The seeds np.random is given.
Seeds == {0, 5}

\* The global generator of np.random: from a state, the next one.
RngNext(r) == (5 * r + 3) % 16

\* np.random.choice(N, size=n, replace=True) from the state r of the global
\* generator: n indices, each drawn on its own, and the state left behind.
RECURSIVE Choice(_, _, _)
Choice(r, N, n) ==
    IF n = 0 THEN [indices |-> <<>>, rng |-> r]
    ELSE LET rest == Choice(RngNext(r), N, n - 1)
         IN [indices |-> <<((r \div 2) % N) + 1>> \o rest.indices, rng |-> rest.rng]

\* [int(n) for n in np.linspace(min_n, max_n, steps)]: steps numbers evenly
\* spaced from min_n to max_n, cut to integers; for steps = 1, min_n alone.
MutLinspaceOpen(min_n, max_n, steps) ==
    [k \in 1..steps |-> (min_n * steps + (k - 1) * (max_n - min_n)) \div steps]
Linspace(min_n, max_n, steps) ==
    [k \in 1..steps |->
        IF steps = 1 THEN min_n
        ELSE (min_n * (steps - 1) + (k - 1) * (max_n - min_n)) \div (steps - 1)]

\* embeds[indices]
Take(array, indices) ==
    [kind |-> "array", rows |-> [i \in 1..Len(indices) |-> array.rows[indices[i]]]]

\* [np.load(f) for f in eval_files]; np.concatenate(embeds, axis=0)
RECURSIVE LoadNpy(_, _, _, _)
LoadNpy(files, cache, i, lst) ==
    IF i > Len(files)
    THEN IF lst = <<>> THEN Raised("load", NoFile, "ValueError")
         ELSE Returned("load", NoFile, np_concatenate(lst))
    ELSE LET file == cache[get_cache_embedding_path(files[i])]
         IN IF LoadError(file) # "" THEN Raised("load", files[i], LoadError(file))
            ELSE LoadNpy(files, cache, i + 1, Append(lst, file))

\* slope, intercept = np.polyfit(xs, ys, 1): the least-squares line.  When the
\* xs are all one number the columns of the scaled design matrix are equal and
\* lstsq gives the solution of least norm: intercept = mean(ys) / 2 and
\* slope = mean(ys) / (2 x).
np_polyfit(xs, ys) ==
    LET m == FromInt(Len(xs))
        sx == RSum(xs)
        sy == RSum(ys)
        sxx == RSum([i \in 1..Len(xs) |-> RMul(xs[i], xs[i])])
        sxy == RSum([i \in 1..Len(xs) |-> RMul(xs[i], ys[i])])
        den == RSub(RMul(m, sxx), RMul(sx, sx))
        slope == RDiv(RSub(RMul(m, sxy), RMul(sx, sy)), den)
    IN IF den = Zero
       THEN [slope |-> RDiv(sy, RMul(FromInt(2), sx)),
             intercept |-> RDiv(sy, RMul(FromInt(2), m))]
       ELSE [slope |-> slope, intercept |-> RDiv(RSub(sy, RMul(slope, sx)), m)]

\* Lines 276-281: xs = 1 / ns, ys = the scores; return intercept, slope.
MutFitSlopeFirst(ns, results) ==
    LET fit == np_polyfit([i \in 1..Len(ns) |-> Rat(1, ns[i])],
                          [i \in 1..Len(results) |-> results[i][2]])
    IN Returned("fadinf", NoFile, <<fit.slope, fit.intercept>>)
Fit(ns, results) ==
    LET fit == np_polyfit([i \in 1..Len(ns) |-> Rat(1, ns[i])],
                          [i \in 1..Len(results) |-> results[i][2]])
    IN Returned("fadinf", NoFile, <<fit.intercept, fit.slope>>)

\* One pass of the loop of lines 264-273 for n, from the state r of the
\* generator: the indices drawn, the state left, and how the distance ended.
Pass(base, array, n, r, o1, o2) ==
    LET c == Choice(r, Len(array.rows), n)
    IN [indices |-> c.indices,
        rng |-> c.rng,
        z |-> calc_frechet_distance(base, calc_embd_statistics(numpy, Take(array, c.indices)),
                                    o1, o2)]

\* np.random.seed(s), then fadinf(baseline_dir, eval_files, steps, min_n): the
\* run starts with mu_base, cov_base = self.load_stats(baseline_dir).
CallFadinf(w, s) ==
    /\ pc[w] = "idle"
    /\ calls = 0
    /\ calls' = calls + 1
    /\ rng' = s
    /\ infSeed' = s
    /\ pc' = [pc EXCEPT ![w] = "ls_exists"]
    /\ ret' = [ret EXCEPT ![w] = Running("fadinf", NoFile)]
    /\ UNCHANGED <<wav, emb, cur, wavData, embd, loads, embeds, failed, ensured, faults>>
    /\ UNCHANGED <<others, infFiles, infNpy, infSteps, infMinN, infO1, infO2, infEmbeds,
                   infNs, infResults, infSamples>>
    /\ UNCHANGED <<envVars, batchVars, loadVars, distVars, statsVars, scoreVars>>

\* Lines 251-255: all([f.suffix == '.npy' ...]) holds of the empty list too.
AllNpy == infNpy \/ infFiles = <<>>

\* Lines 251-261: the embeddings of eval_files, max_n and ns.
FiLoad(w) ==
    /\ pc[w] = "fi_load"
    /\ LET r == IF AllNpy THEN LoadNpy(infFiles, emb, 1, <<>>)
                ELSE _load_embeddings(infFiles, Unbounded, TRUE, emb)
       IN IF r.kind = "raise"
          THEN /\ pc' = [pc EXCEPT ![w] = "idle"]
               /\ ret' = [ret EXCEPT ![w] = Raised("fadinf", r.file, r.err)]
               /\ UNCHANGED <<infEmbeds, infNs>>
          ELSE /\ pc' = [pc EXCEPT ![w] = "fi_loop"]
               /\ infEmbeds' = r.value
               /\ infNs' = Linspace(infMinN, Rows(r.value), infSteps)
               /\ UNCHANGED ret
    /\ UNCHANGED <<wav, emb, cur, wavData, embd, loads, embeds, failed, ensured,
                   faults, calls>>
    /\ UNCHANGED <<rng, others, infSeed, infFiles, infNpy, infSteps, infMinN, infO1, infO2,
                   infResults, infSamples>>
    /\ UNCHANGED <<envVars, batchVars, loadVars, distVars, statsVars, scoreVars>>

\* Lines 264-273, one pass: draw, take, statistics, distance, append.
FiStep(w) ==
    /\ pc[w] = "fi_loop"
    /\ Len(infResults) < Len(infNs)
    /\ LET n == infNs[Len(infResults) + 1]
           p == Pass(stats[w], infEmbeds, n, rng, infO1, infO2)
       IN /\ rng' = p.rng
          /\ infSamples' = Append(infSamples, p.indices)
          /\ IF p.z.kind = "raise"
             THEN /\ pc' = [pc EXCEPT ![w] = "idle"]
                  /\ ret' = [ret EXCEPT ![w] = Raised("fadinf", NoFile, p.z.err)]
                  /\ UNCHANGED infResults
             ELSE /\ infResults' = Append(infResults, <<n, p.z.value>>)
                  /\ UNCHANGED <<pc, ret>>
    /\ UNCHANGED <<wav, emb, cur, wavData, embd, loads, embeds, failed, ensured,
                   faults, calls>>
    /\ UNCHANGED <<others, infSeed, infFiles, infNpy, infSteps, infMinN, infO1, infO2,
                   infEmbeds, infNs>>
    /\ UNCHANGED <<envVars, batchVars, loadVars, distVars, statsVars, scoreVars>>

\* Lines 276-281, after the last pass: the fit, and return intercept, slope.
FiFit(w) ==
    /\ pc[w] = "fi_loop"
    /\ Len(infResults) = Len(infNs)
    /\ pc' = [pc EXCEPT ![w] = "idle"]
    /\ ret' = [ret EXCEPT ![w] = Fit(infNs, infResults)]
    /\ UNCHANGED <<wav, emb, cur, wavData, embd, loads, embeds, failed, ensured,
                   faults, calls>>
    /\ UNCHANGED <<envVars, batchVars, infVars, loadVars, distVars, statsVars, scoreVars>>

\* Between two passes of the loop of fadinf, something else in the process
\* draws from np.random.
OtherUse ==
    /\ pc[1] = "fi_loop"
    /\ others < MaxOthers
    /\ others' = others + 1
    /\ rng' = RngNext(rng)
    /\ UNCHANGED <<infSeed, infFiles, infNpy, infSteps, infMinN, infO1, infO2, infEmbeds,
                   infNs, infResults, infSamples>>
    /\ UNCHANGED <<cacheVars, envVars, batchVars, loadVars, distVars, statsVars, scoreVars>>

InfStep(w) ==
    \/ StatsStep(w)
    \/ FiLoad(w)
    \/ FiStep(w)
    \/ FiFit(w)

\* The eval_files fadinf is tried on: none, one file, two files of one cache
\* path, and a file that is not cached.
EvalLists ==
    {<<>>, <<<<"a", "wav">>>>, <<<<"a", "mp3">>, <<"a", "wav">>>>, <<<<"b", "wav">>>>}

\* The embedding caches fadinf is tried on: frames at the origin or frames on a
\* line at a.npy, and no b.npy.
InfCaches ==
    {[p \in CachePaths |-> IF p = "a" THEN EmbeddingOf(f) ELSE Absent] :
        f \in FilesAt("a")}

\* The baseline and the cache of a run.  With the frames of one of them at the
\* origin the product of the covariances is zero and its root is exact.
InfData ==
    {x \in ScoreBgDirs \X InfCaches :
        EmbeddingOf(<<"a", "wav">>) \in {x[1][1], x[2]["a"]}}

\* What the second linalg.sqrtm gives during a run of fadinf.  The root of the
\* offset product of the covariance of a sample is beyond the model's numbers:
\* the runs tried are those where a root that was not finite stays so.
RetryOutcomes(o1) == IF o1 = "nan" THEN {"nan"} ELSE {"real"}

\* One fadinf on any of the eval lists, with the statistics of the baseline
\* cached or not, on either numpy, and whatever linalg.sqrtm gives.
InitInf ==
    /\ wav = [p \in WavPaths |-> Absent]
    /\ bgEmb \in {x[1] : x \in InfData}
    /\ emb \in {x[2] : x \in {y \in InfData : y[1] = bgEmb}}
    /\ CacheIdle
    /\ faults = 0
    /\ LoadIdle
    /\ DistIdle
    /\ statsDir \in BOOLEAN
    /\ muFile = IF statsDir THEN Saved(calculate_embd_statistics_online(bgEmb).mu)
                ELSE Absent
    /\ covFile = IF statsDir THEN Saved(calculate_embd_statistics_online(bgEmb).cov)
                 ELSE Absent
    /\ stats = [w \in Workers |-> None]
    /\ computes = 0
    /\ ScoreIdle
    /\ numpy \in NumpyVersions
    /\ BatchIdle
    /\ rng = 0
    /\ others = 0
    /\ infSeed = 0
    /\ infFiles \in EvalLists
    /\ infNpy \in BOOLEAN
    /\ infSteps \in 1..MaxSteps
    /\ infMinN \in 1..MaxMinN
    /\ infO1 \in SqrtmOutcomes
    /\ infO2 \in RetryOutcomes(infO1)
    /\ infEmbeds = None
    /\ infNs = <<>>
    /\ infResults = <<>>
    /\ infSamples = <<>>
NextInf == (\E s \in Seeds : CallFadinf(1, s)) \/ InfStep(1) \/ OtherUse
SpecInf == InitInf /\ [][NextInf]_vars

(***************************************************************************)
(* fadinf: what is claimed of it.                                          *)
(***************************************************************************)
\* The run of fadinf is over: it returned or it raised.
InfDone == pc[1] = "idle" /\ ret[1] # None /\ ret[1].op = "fadinf"
InfReturned == InfDone /\ ret[1].kind = "return"

\* The sample sizes are distinct.
DistinctNs == \A i, j \in DOMAIN infNs : infNs[i] = infNs[j] => i = j

\* Every recorded distance is the number c.
ConstantAt(c) == IsFinite(c) /\ \A i \in DOMAIN infResults : infResults[i][2] = c

\* A run of two steps or more over distinct sizes whose distances are all c.
ConstantRun ==
    /\ InfReturned
    /\ infSteps >= 2
    /\ DistinctNs
    /\ ConstantAt(infResults[1][2])

\* C16: when the distance recorded at every one of two or more distinct sample
\* sizes is the same number c, fadinf returns the intercept c and the slope 0.
C16_ConstantDistance ==
    ConstantRun => ret[1].value = <<infResults[1][2], Zero>>

\* A run of three distinct sizes whose distances are all one number, not 0.
C16_Witness ==
    /\ ConstantRun
    /\ Len(infNs) = 3
    /\ infResults[1][2] # Zero

\* With every size the same the fit is not of full rank, and the intercept
\* returned is half the constant.
C16_HalfWhenSizesEqual ==
    (/\ InfReturned
     /\ \A i \in DOMAIN infNs : infNs[i] = infNs[1]
     /\ ConstantAt(infResults[1][2]))
        => ret[1].value[1] = RDiv(infResults[1][2], FromInt(2))

\* The loop of lines 264-273 and the fit after it, from the state r of the
\* generator, when nothing else draws from np.random.
RECURSIVE InfLoop(_, _, _, _, _)
InfLoop(base, array, ns, r, results) ==
    IF Len(results) = Len(ns) THEN Fit(ns, results)
    ELSE LET n == ns[Len(results) + 1]
             p == Pass(base, array, n, r, infO1, infO2)
         IN IF p.z.kind = "raise" THEN Raised("fadinf", NoFile, p.z.err)
            ELSE InfLoop(base, array, ns, p.rng, Append(results, <<n, p.z.value>>))

\* fadinf as a function of its arguments, the files it reads and the seed.
fadinf(seed) ==
    LET r == IF AllNpy THEN LoadNpy(infFiles, emb, 1, <<>>)
             ELSE _load_embeddings(infFiles, Unbounded, TRUE, emb)
    IN IF r.kind = "raise" THEN Raised("fadinf", r.file, r.err)
       ELSE InfLoop(calculate_embd_statistics_online(bgEmb), r.value,
                    Linspace(infMinN, Rows(r.value), infSteps), seed, <<>>)

\* C17: the result of fadinf is a function of its arguments and of the random
\* source it was given, whatever else in the process uses randomness.
C17_FunctionOfSeed == InfDone => ret[1] = fadinf(infSeed)

\* It is one when nothing else draws from np.random during the run.
C17_FunctionOfSeedWhenAlone == (InfDone /\ others = 0) => ret[1] = fadinf(infSeed)

\* A run that returned, with a draw of something else between its passes.
C17_Disturbed == InfReturned /\ others > 0

\* The rows of evalEmbeddings: those of the cached arrays of eval_files.
EvalRows == ConcatRows([i \in DOMAIN infFiles |-> emb[get_cache_embedding_path(infFiles[i])]])

\* One pair per generated size, in the order of the sizes.
PairPerSize ==
    /\ Len(infResults) = infSteps
    /\ Len(infNs) = infSteps
    /\ \A i \in DOMAIN infNs : infResults[i][1] = infNs[i]

\* Size k is point k of steps points evenly spaced from min_n to max_n, cut to
\* an integer; one point alone is min_n.
EvenlySpaced ==
    \A k \in DOMAIN infNs :
        LET point == infMinN * (infSteps - 1) + (k - 1) * (Len(EvalRows) - infMinN)
        IN IF infSteps = 1 THEN infNs[k] = infMinN
           ELSE /\ infNs[k] * (infSteps - 1) <= point
                /\ point < (infNs[k] + 1) * (infSteps - 1)

\* Pair i is the distance of backgroundStats to the statistics of the n rows
\* drawn for it, each of them a row of evalEmbeddings.
FromSample(i) ==
    /\ Len(infSamples[i]) = infNs[i]
    /\ \A j \in DOMAIN infSamples[i] : infSamples[i][j] \in 1..Len(EvalRows)
    /\ LET z == calc_frechet_distance(
                    calculate_embd_statistics_online(bgEmb),
                    calc_embd_statistics(numpy,
                        [kind |-> "array",
                         rows |-> [j \in DOMAIN infSamples[i] |-> EvalRows[infSamples[i][j]]]]),
                    infO1, infO2)
       IN z.kind = "return" /\ infResults[i][2] = z.value

\* backgroundStats and evalEmbeddings are as they were loaded.
InputsKept ==
    /\ stats[1] = calculate_embd_statistics_online(bgEmb)
    /\ infEmbeds.rows = EvalRows

\* C20, as stated: a fadinf that returned recorded steps pairs, one per size
\* in order; the sizes are evenly spaced integers, the first min_n and the
\* last max_n; each distance is that of n rows drawn from evalEmbeddings; and
\* the inputs are unchanged.
C20_Sampling ==
    InfReturned =>
        /\ PairPerSize
        /\ EvenlySpaced
        /\ infNs[1] = infMinN
        /\ infNs[Len(infNs)] = Len(EvalRows)
        /\ \A i \in DOMAIN infResults : FromSample(i)
        /\ InputsKept

\* C20, for two steps or more: the same, and with one step the only size is
\* min_n.
C20_SamplingFromTwoSteps ==
    InfReturned =>
        /\ PairPerSize
        /\ EvenlySpaced
        /\ infNs[1] = infMinN
        /\ infSteps >= 2 => infNs[Len(infNs)] = Len(EvalRows)
        /\ \A i \in DOMAIN infResults : FromSample(i)
        /\ InputsKept

\* A run of three steps returned, from min_n below max_n.
C20_Witness ==
    /\ InfReturned
    /\ infSteps = 3
    /\ infMinN < Len(EvalRows)
    /\ Len(infResults) = 3

\* With one step the size is min_n, whatever max_n is.
C20_OneStepIsMinN == (InfReturned /\ infSteps = 1) => infNs = <<infMinN>>

(***************************************************************************)
(* cache_embedding_file when a collaborator fails.                         *)
(***************************************************************************)
\* The last call of the caller was cache_embedding_file(f) and it raised.
RaisedFor(f) ==
    /\ pc[1] = "idle"
    /\ ret[1].kind = "raise"
    /\ ret[1].op = "cache"
    /\ ret[1].file = f

\* SoX failed on f: the converted file of f is there and was never finished.
ConversionFailed(f) ==
    /\ pc[1] = "idle"
    /\ Exists(wav[WavPath(f)])
    /\ wav[WavPath(f)].src = f
    /\ ~wav[WavPath(f)].complete

\* Nothing is at the cache path of f: a read misses and a call computes.
NoEntry(f) ==
    /\ ~Exists(emb[get_cache_embedding_path(f)])
    /\ read_embedding_file(f, emb) = Raised("read", f, "AssertionError")
    /\ ~IsCached(f)

\* C19: after the loading or conversion of the audio of a file, or its
\* embedding, has failed, there is no entry at the cache path of the file: a
\* later read misses and a later cache_embedding_file computes again.
C19_FailureLeavesNoEntry ==
    \A f \in Files : (RaisedFor(f) \/ ConversionFailed(f)) => NoEntry(f)

\* A call that raised left no entry.
C19_RaiseLeavesNoEntry ==
    \A f \in Files : RaisedFor(f) => NoEntry(f)

\* The model failed on the loaded audio of a file, and the call raised.
C19_RaisedAfterLoad ==
    \E f \in Files : RaisedFor(f) /\ ret[1].err = "ModelError" /\ embeds[f] = 1

(***************************************************************************)
(* load_stats with two callers on one directory, and calls that are cut    *)
(* short.                                                                  *)
(***************************************************************************)
\* The places of load_stats between two of its steps.
StatsPlaces ==
    {"ls_exists", "ls_load_mu", "ls_load_cov", "ls_compute", "ls_mkdir",
     "ls_save_mu", "ls_write_mu", "ls_save_cov", "ls_write_cov"}

\* The process of a load_stats is interrupted between two steps: the call
\* ends there, and what it wrote so far stays.
Interrupted(w) ==
    /\ pc[w] \in StatsPlaces
    /\ ret[w].op = "stats"
    /\ StatsRaise(w, "KeyboardInterrupt")
    /\ UNCHANGED <<wav, emb, cur, wavData, embd, loads, embeds, failed,
                   ensured, faults, calls>>
    /\ UNCHANGED <<bgEmb, statsDir, muFile, covFile, computes>>
    /\ UNCHANGED <<otherVars, loadVars, distVars, scoreVars>>

\* Two processes call load_stats on one directory with embeddings and no
\* statistics yet, and a call may be interrupted.
InitStatsRace == InitStats
NextStatsRace == \E w \in Workers : CallLoadStats(w) \/ StatsStep(w) \/ Interrupted(w)
SpecStatsRace == InitStatsRace /\ [][NextStatsRace]_vars

\* A whole pair (mu, cov) is saved, and it is the statistics of the directory.
PairSaved ==
    /\ IsArray(muFile)
    /\ IsArray(covFile)
    /\ Stats(muFile.value, covFile.value) = calculate_embd_statistics_online(bgEmb)

\* C18: in every state the condition of the cache-hit branch implies that a
\* whole pair (mu, cov) is saved; a load_stats that is not interrupted never
\* fails and returns the statistics of the directory.
C18_HitMeansPairSaved ==
    /\ StatsCached => PairSaved
    /\ \A w \in Workers :
          (StatsReturned(w) /\ ret[w].err # "KeyboardInterrupt") =>
              /\ ret[w].kind = "return"
              /\ ret[w].value = calculate_embd_statistics_online(bgEmb)

\* A load_stats that returned returned the statistics of the directory.
C18_ReturnedAreTheStatistics ==
    \A w \in Workers :
        (StatsReturned(w) /\ ret[w].kind = "return") =>
            ret[w].value = calculate_embd_statistics_online(bgEmb)

\* With one caller and no interruption the pair is saved whenever the branch
\* is taken.
C18_PairSavedWhenAlone == pc[1] \in {"ls_load_mu", "ls_load_cov"} => PairSaved

\* After an interruption between mkdir and the end of the second np.save,
\* a later load_stats finds the directory and raises.
C18_RaisedAfterInterrupt ==
    \E w \in Workers :
        /\ StatsReturned(w)
        /\ ret[w].kind = "raise"
        /\ ret[w].err \in {"FileNotFoundError", "EOFError"}
        /\ \A v \in Workers : pc[v] = "idle"

====
